---- MODULE Spec2Model ----
(***************************************************************************)
(* State-machine model of the N-dimensional transpose operator and the     *)
(* depth-to-space / space-to-depth operators built on it                   *)
(* (src/src/operators/transpose-nd.c).                                     *)
(*                                                                         *)
(* C arrays are functions over 0..n-1, so that indices read as in the      *)
(* source.  Pointers are naturals, 0 being NULL.  Function pointers and    *)
(* the entries of xnn_params are strings naming them.                      *)
(***************************************************************************)
EXTENDS Integers, FiniteSets, Sequences, TLC

VARIABLES
  init_flags,   \* xnn_params.init_flags, as the set of the bits that are set
  op,           \* the operator behind the caller's handle
  created,      \* history: the arguments of the create call that made op
  call          \* history: the last API call, its arguments and its result

vars == <<init_flags, op, created, call>>

----------------------------------------------------------------------------
(* Program constants *)

XNN_MAX_TENSOR_DIMS == 6

(* Bounds of the model *)

\* largest extent of one dimension of a transpose shape
MaxExtent == 2
\* ranks up to this one are enumerated with every perm array and every shape
MaxFullRank == 2
\* largest channel count given to the create of a derived operator
MaxChannels == 1
\* largest input height and input width of a derived setup
MaxImage == 2
\* largest batch size of a derived setup
MaxBatch == 1
\* largest block size given to the create of a derived operator
MaxBlock == 2
\* ranks up to this one are enumerated with every permutation
MaxPermRank == 4
\* largest valid rank of the setup calls made in the life of one operator
MaxLifeRank == 2
\* an image of the space-to-depth round trip has at most one more than this
\* many blocks on a side
MaxTiles == 2

----------------------------------------------------------------------------
(* Arrays *)

Size(a) == Cardinality(DOMAIN a)

Arr(n, v) == [i \in 0..(n - 1) |-> v]

EmptyArr == Arr(0, 0)

\* a[0..n-1]
Prefix(a, n) == [i \in 0..(n - 1) |-> a[i]]

\* a without its entry k
RemoveAt(a, k) ==
  [i \in 0..(Size(a) - 2) |-> IF i < k THEN a[i] ELSE a[i + 1]]

\* a with its entries i and j exchanged
SwapAt(a, i, j) ==
  [k \in DOMAIN a |-> IF k = i THEN a[j] ELSE IF k = j THEN a[i] ELSE a[k]]

\* the first n entries of the stored array taken from a, the others kept
StoreFirst(stored, n, a) ==
  [k \in DOMAIN stored |-> IF k < n THEN a[k] ELSE stored[k]]

RECURSIVE ProdFrom(_, _, _)
\* a[lo] * ... * a[hi - 1]
ProdFrom(a, lo, hi) == IF lo >= hi THEN 1 ELSE a[lo] * ProdFrom(a, lo + 1, hi)

\* an optional array argument: NULL, or a pointer to the array at
NullArr == [null |-> TRUE, at |-> EmptyArr]
PtrTo(a) == [null |-> FALSE, at |-> a]

----------------------------------------------------------------------------
(* xnn_normalize_transpose_permutation (declared in xnnpack/normalization.h; *)
(* its body is not part of the sources at hand, it is modelled from        *)
(* section 4.1 of the specification).  Strides come in elements and leave  *)
(* in bytes.                                                               *)

\* row-major packed strides, in elements, of dimensions with these extents
PackedStrides(n, extent) == [i \in 0..(n - 1) |-> ProdFrom(extent, i + 1, n)]

\* the extents in output order
OutputShape(n, perm, shape) == [i \in 0..(n - 1) |-> shape[perm[i]]]

\* the position of input dimension d in perm
PosOf(perm, d) ==
  IF \E q \in DOMAIN perm : perm[q] = d
  THEN CHOOSE q \in DOMAIN perm : perm[q] = d
  ELSE 0

RECURSIVE FoldElement(_)
\* the innermost dimension, when the permutation leaves it innermost and its
\* full extent is one contiguous run on both sides (unit stride, packed
\* under the next dimension), is absorbed into the element; this cascades,
\* and a problem of one dimension is one element
FoldElement(p) ==
  LET l == p.dims - 1 IN
  IF \/ p.dims = 1
     \/ /\ p.perm[l] = l
        /\ p.is[l] = p.es /\ p.os[l] = p.es
        /\ p.is[l - 1] = p.shape[l] * p.is[l]
        /\ p.os[l - 1] = p.shape[l] * p.os[l]
  THEN IF p.dims = 1
       THEN [p EXCEPT !.es = p.es * p.shape[0],
                      !.shape = Arr(1, 1),
                      !.is = Arr(1, p.es * p.shape[0]),
                      !.os = Arr(1, p.es * p.shape[0])]
       ELSE FoldElement([dims |-> l,
                         es |-> p.es * p.shape[l],
                         perm |-> Prefix(p.perm, l),
                         shape |-> Prefix(p.shape, l),
                         is |-> Prefix(p.is, l),
                         os |-> Prefix(p.os, l)])
  ELSE p

\* input dimensions i and i+1 merge: the permutation keeps them adjacent and
\* in order, and both strides are packed across the pair
Mergeable(p, i) ==
  /\ i + 1 < p.dims
  /\ PosOf(p.perm, i) + 1 < p.dims
  /\ p.perm[PosOf(p.perm, i) + 1] = i + 1
  /\ p.is[i] = p.shape[i + 1] * p.is[i + 1]
  /\ p.os[PosOf(p.perm, i)] = p.shape[i + 1] * p.os[PosOf(p.perm, i) + 1]

MergeAt(p, i) ==
  LET q == PosOf(p.perm, i)
      perm1 == RemoveAt(p.perm, q + 1)
  IN [dims |-> p.dims - 1,
      es |-> p.es,
      perm |-> [k \in DOMAIN perm1 |->
                  IF perm1[k] > i THEN perm1[k] - 1 ELSE perm1[k]],
      shape |-> RemoveAt([p.shape EXCEPT ![i] = p.shape[i] * p.shape[i + 1]],
                         i + 1),
      is |-> RemoveAt([p.is EXCEPT ![i] = p.is[i + 1]], i + 1),
      os |-> RemoveAt([p.os EXCEPT ![q] = p.os[q + 1]], q + 1)]

RECURSIVE MergeDims(_)
\* scan from the innermost dimension outward, merging while a pair merges
MergeDims(p) ==
  LET cand == {i \in 0..(p.dims - 2) : Mergeable(p, i)} IN
  IF cand = {} THEN p
  ELSE MergeDims(MergeAt(p, CHOOSE i \in cand : \A j \in cand : j <= i))

xnn_normalize_transpose_permutation(num_dims, element_size, perm, shape, input_stride, output_stride) ==
  LET is0 == IF input_stride.null THEN PackedStrides(num_dims, shape)
             ELSE input_stride.at
      os0 == IF output_stride.null
             THEN PackedStrides(num_dims, OutputShape(num_dims, perm, shape))
             ELSE output_stride.at
  IN MergeDims(FoldElement(
       [dims |-> num_dims,
        es |-> element_size,
        perm |-> perm,
        shape |-> shape,
        is |-> [i \in 0..(num_dims - 1) |-> is0[i] * element_size],
        os |-> [i \in 0..(num_dims - 1) |-> os0[i] * element_size]]))

----------------------------------------------------------------------------
(* The operator descriptor, struct xnn_operator: the fields this file uses *)

\* xnn_allocate_zero_simd_memory(sizeof(struct xnn_operator))
ZeroOperator ==
  [alive |-> TRUE,
   type |-> "invalid",
   flags |-> 0,
   state |-> "uninitialized",
   channels |-> 0,
   block_size |-> 0,
   input_pixel_stride |-> 0,
   output_pixel_stride |-> 0,
   context |->
     [transpose |->
        [x |-> 0, y |-> 0,
         const_size_ukernel |-> "NULL",
         variable_size_ukernel |-> "NULL",
         element_size |-> 0,
         log2_element_size |-> 0,
         input_stride |-> Arr(XNN_MAX_TENSOR_DIMS, 0),
         output_stride |-> Arr(XNN_MAX_TENSOR_DIMS, 0)],
      univector_contiguous |->
        [x |-> 0, y |-> 0, ukernel |-> "NULL", log2_xsize |-> 0, log2_ysize |-> 0]],
   compute |->
     [type |-> "invalid",
      task |-> "NULL",
      range |-> Arr(XNN_MAX_TENSOR_DIMS, 0),
      tile |-> Arr(2, "0")]]

\* the caller holds no handle
NoOperator == [ZeroOperator EXCEPT !.alive = FALSE, !.type = "none"]

\* xnn_delete_operator (xnnpack.h; modelled from the specification's
\* delete(handle)): the descriptor's memory is released.  What the caller's
\* handle then points at is indeterminate.
xnn_delete_operator(o) == [ZeroOperator EXCEPT !.alive = FALSE, !.type = "released"]

HasOperator == op.alive
Dangling == op.type = "released"

Success == "success"
Uninitialized == "uninitialized"
InvalidParameter == "invalid_parameter"
UnsupportedHardware == "unsupported_hardware"
OutOfMemory == "out_of_memory"
Statuses == {Success, Uninitialized, InvalidParameter, UnsupportedHardware, OutOfMemory}

\* the bits of xnn_params.init_flags
InitFlagBits == {"XNNPACK", "X8", "X16", "X32"}

----------------------------------------------------------------------------
(* reorder_array *)

\* the array left in the order it had
reorder_array_in_place(num_dims, loop_order, array) == array

\* array[i] = tmp[loop_order[i]] for i < num_dims; the entries from num_dims
\* on are left as they are
reorder_array(num_dims, loop_order, array) ==
  [i \in DOMAIN array |-> IF i < num_dims THEN array[loop_order[i]] ELSE array[i]]

----------------------------------------------------------------------------
(* init_transpose_nd, create_transpose_nd *)

init_transpose_nd(flags, datatype_init_flags, operator_type, transpose_op) ==
  IF ~(datatype_init_flags \subseteq init_flags)
  THEN [status |-> UnsupportedHardware, op |-> transpose_op]
  ELSE [status |-> Success,
        op |-> [transpose_op EXCEPT !.flags = flags, !.type = operator_type]]

\* alloc: whether xnn_allocate_zero_simd_memory returns memory
create_transpose_nd(flags, datatype_init_flags, operator_type, alloc) ==
  IF "XNNPACK" \notin init_flags
  THEN [status |-> Uninitialized, op |-> NoOperator]
  ELSE IF ~alloc
  THEN [status |-> OutOfMemory, op |-> NoOperator]
  ELSE LET r == init_transpose_nd(flags, datatype_init_flags, operator_type, ZeroOperator)
       IN IF r.status # Success
          THEN [status |-> r.status, op |-> NoOperator]
          ELSE [status |-> Success, op |-> r.op]

----------------------------------------------------------------------------
(* setup_transpose_nd *)

\* a bound that is one too tight: the largest rank is rejected as well
RankOutOfBoundsTight(num_dims) == num_dims = 0 \/ num_dims >= XNN_MAX_TENSOR_DIMS

\* num_dims == 0, num_dims > XNN_MAX_TENSOR_DIMS
RankOutOfBounds(num_dims) == num_dims = 0 \/ num_dims > XNN_MAX_TENSOR_DIMS

\* some perm[i] >= num_dims
PermOutOfRange(num_dims, perm) ==
  \E i \in 0..(num_dims - 1) : perm[i] >= num_dims

\* a scan that compares neighbours only
PermHasDuplicateNeighbours(num_dims, perm) ==
  \E i \in 0..(num_dims - 2) : perm[i] = perm[i + 1]

\* perm[i] == perm[j] for some i < j
PermHasDuplicate(num_dims, perm) ==
  \E i \in 0..(num_dims - 2) : \E j \in (i + 1)..(num_dims - 1) : perm[i] = perm[j]

\* stride[num_dims - 1] != 1
LastStrideNotOne(num_dims, stride) == stride[num_dims - 1] # 1

\* the loop over i = num_dims - 1 .. 1: current_stride is the product of the
\* extents i + 1 .. num_dims - 1 when entry i is looked at
StrideOrderViolated(num_dims, extent, stride) ==
  \E i \in 1..(num_dims - 1) :
     \/ stride[i - 1] < stride[i] * extent[i]
     \/ stride[i - 1] < ProdFrom(extent, i + 1, num_dims)

\* what the two stride blocks do when a check fails: xnn_log_error, and on
\* to the next statement
StrideErrorLogged(num_dims, input_shape, perm, input_stride, output_stride) ==
  \/ /\ ~input_stride.null
     /\ \/ LastStrideNotOne(num_dims, input_stride.at)
        \/ StrideOrderViolated(num_dims, input_shape, input_stride.at)
  \/ /\ ~output_stride.null
     /\ \/ LastStrideNotOne(num_dims, output_stride.at)
        \/ StrideOrderViolated(num_dims, OutputShape(num_dims, perm, input_shape), output_stride.at)

\* a scan that looks at the outermost extent only
degenerate_shape_outermost(num_dims, input_shape) == input_shape[0] = 0

\* for (i = 0; i < num_dims; ++i) degenerate_shape |= input_shape[i] == 0
degenerate_shape(num_dims, input_shape) ==
  \E i \in 0..(num_dims - 1) : input_shape[i] = 0

\* the i < normalized_dims - 2 at which loop_order[i] == normalized_dims - 1,
\* or -1 when the loop finds none (or normalized_dims <= 1)
SwapIndex(normalized_dims, loop_order) ==
  IF normalized_dims > 1 /\ \E i \in 0..(normalized_dims - 3) : loop_order[i] = normalized_dims - 1
  THEN CHOOSE i \in 0..(normalized_dims - 3) : loop_order[i] = normalized_dims - 1
  ELSE -1

\* loop_order without the exchange
LoopOrderAsPermuted(normalized_dims, normalized_perm) == normalized_perm

\* loop_order after the exchange
LoopOrder(normalized_dims, normalized_perm) ==
  LET i == SwapIndex(normalized_dims, normalized_perm) IN
  IF i = -1 THEN normalized_perm ELSE SwapAt(normalized_perm, i, normalized_dims - 2)

\* an exchange of loop_order that leaves output_stride as it was
SwapOutputStrideLeft(normalized_dims, normalized_perm, output_stride) == output_stride

\* an exchange of output strides with the last position
SwapOutputStrideLast(normalized_dims, normalized_perm, output_stride) ==
  LET i == SwapIndex(normalized_dims, normalized_perm) IN
  IF i = -1 THEN output_stride ELSE SwapAt(output_stride, i, normalized_dims - 1)

\* context->output_stride after the exchange
SwapOutputStride(normalized_dims, normalized_perm, output_stride) ==
  LET i == SwapIndex(normalized_dims, normalized_perm) IN
  IF i = -1 THEN output_stride ELSE SwapAt(output_stride, i, normalized_dims - 2)

\* the operator's channels field when the buffer pointers are stored
PointerSlot(transpose_op) ==
  IF transpose_op.channels = 1 THEN "univector_contiguous" ELSE "transpose"

\* the store of the buffer pointers through the member PointerSlot names.
\* context is a union (xnnpack/operator.h) and x and y are the first two
\* members of both struct transpose_context and struct
\* univector_contiguous_context (xnnpack/compute.h), so the pointers read the
\* same through either member.
StorePointers(transpose_op, input, output) ==
  IF PointerSlot(transpose_op) \in {"univector_contiguous", "transpose"}
  THEN [transpose_op EXCEPT !.context.univector_contiguous.x = input,
                            !.context.univector_contiguous.y = output,
                            !.context.transpose.x = input,
                            !.context.transpose.y = output]
  ELSE transpose_op

\* switch (normalized_element_size)
ElementSizeSwitch(o, normalized_element_size) ==
  CASE normalized_element_size = 1 ->
         [o EXCEPT !.context.transpose.log2_element_size = 0,
                   !.context.transpose.const_size_ukernel = "x8.transpose.const_size_ukernel",
                   !.compute.tile = Arr(2, "x8.transpose.tile_size")]
    [] normalized_element_size = 2 ->
         [o EXCEPT !.context.transpose.log2_element_size = 1,
                   !.context.transpose.const_size_ukernel = "x16.transpose.const_size_ukernel",
                   !.compute.tile = Arr(2, "x16.transpose.tile_size")]
    [] normalized_element_size = 4 ->
         [o EXCEPT !.context.transpose.log2_element_size = 2,
                   !.context.transpose.const_size_ukernel = "x32.transpose.const_size_ukernel",
                   !.compute.tile = Arr(2, "x32.transpose.tile_size")]
    [] OTHER ->
         [o EXCEPT !.context.transpose.element_size = normalized_element_size,
                   !.context.transpose.variable_size_ukernel = "xx.transpose.variable_size_ukernel",
                   !.compute.tile = Arr(2, "xx.transpose.tile_size")]

\* the flag left false
variable_size_ukernel_never(normalized_element_size) == FALSE

variable_size_ukernel(normalized_element_size) == normalized_element_size \notin {1, 2, 4}

\* a switch (normalized_dims) without case 6
ParallelizationTypeUpToFive(normalized_dims) ==
  CASE normalized_dims = 1 -> "xnn_parallelization_type_1d_tile_1d"
    [] normalized_dims = 2 -> "xnn_parallelization_type_2d_tile_2d"
    [] normalized_dims = 3 -> "xnn_parallelization_type_3d_tile_2d"
    [] normalized_dims = 4 -> "xnn_parallelization_type_4d_tile_2d"
    [] normalized_dims = 5 -> "xnn_parallelization_type_5d_tile_2d"
    [] OTHER -> "XNN_UNREACHABLE"

\* switch (normalized_dims): compute.type
ParallelizationType(normalized_dims) ==
  CASE normalized_dims = 1 -> "xnn_parallelization_type_1d_tile_1d"
    [] normalized_dims = 2 -> "xnn_parallelization_type_2d_tile_2d"
    [] normalized_dims = 3 -> "xnn_parallelization_type_3d_tile_2d"
    [] normalized_dims = 4 -> "xnn_parallelization_type_4d_tile_2d"
    [] normalized_dims = 5 -> "xnn_parallelization_type_5d_tile_2d"
    [] normalized_dims = 6 -> "xnn_parallelization_type_6d_tile_2d"
    [] OTHER -> "XNN_UNREACHABLE"

\* switch (normalized_dims): the task
ComputeTaskTransposeOnly(normalized_dims, variable) ==
  IF variable THEN "xnn_compute_transposev_2d" ELSE "xnn_compute_transposec_2d"

ComputeTask(normalized_dims, variable) ==
  CASE normalized_dims = 1 -> "xnn_compute_univector_contiguous"
    [] normalized_dims = 2 -> IF variable THEN "xnn_compute_transposev_2d" ELSE "xnn_compute_transposec_2d"
    [] normalized_dims = 3 -> IF variable THEN "xnn_compute_transposev_3d" ELSE "xnn_compute_transposec_3d"
    [] normalized_dims = 4 -> IF variable THEN "xnn_compute_transposev_4d" ELSE "xnn_compute_transposec_4d"
    [] normalized_dims = 5 -> IF variable THEN "xnn_compute_transposev_5d" ELSE "xnn_compute_transposec_5d"
    [] normalized_dims = 6 -> IF variable THEN "xnn_compute_transposev_6d" ELSE "xnn_compute_transposec_6d"
    [] OTHER -> "XNN_UNREACHABLE"

RankSwitch(o, normalized_dims, normalized_element_size) ==
  LET o1 == [o EXCEPT !.compute.type = ParallelizationType(normalized_dims),
                      !.compute.task = ComputeTask(normalized_dims, variable_size_ukernel(normalized_element_size))]
  IN IF normalized_dims = 1
     THEN [o1 EXCEPT !.compute.range[0] = normalized_element_size,
                     !.context.univector_contiguous.ukernel = "xx.copy",
                     !.context.univector_contiguous.log2_xsize = 0,
                     !.context.univector_contiguous.log2_ysize = 0]
     ELSE o1

\* the statements from transpose_op->channels = num_dims to the end
BuildPlan(transpose_op, input, output, num_dims, input_shape, perm, input_stride, output_stride, element_size) ==
  LET o1 == [transpose_op EXCEPT !.channels = num_dims]
      norm == xnn_normalize_transpose_permutation(num_dims, element_size, perm, input_shape, input_stride, output_stride)
      n == norm.dims
      loop_order == LoopOrder(n, norm.perm)
      ctx_is == StoreFirst(o1.context.transpose.input_stride, n, norm.is)
      ctx_os == StoreFirst(o1.context.transpose.output_stride, n, norm.os)
      range0 == StoreFirst(o1.compute.range, n, norm.shape)
      o2 == [o1 EXCEPT !.context.transpose.output_stride = SwapOutputStride(n, norm.perm, ctx_os),
                       !.context.transpose.input_stride = reorder_array(n, loop_order, ctx_is),
                       !.compute.range = reorder_array(n, loop_order, range0)]
      o3 == ElementSizeSwitch(o2, norm.es)
      o4 == RankSwitch(o3, n, norm.es)
  IN [StorePointers(o4, input, output) EXCEPT !.state = "ready"]

\* the result: the status returned, the operator as the call leaves it, and
\* whether xnn_log_error was called
setup_transpose_nd(transpose_op, input, output, num_dims, input_shape, perm, input_stride, output_stride, element_size) ==
  LET o0 == [transpose_op EXCEPT !.state = "invalid"] IN
  IF RankOutOfBounds(num_dims)
  THEN [status |-> InvalidParameter, op |-> xnn_delete_operator(o0), logged |-> TRUE]
  ELSE IF PermOutOfRange(num_dims, perm) \/ PermHasDuplicate(num_dims, perm)
  THEN [status |-> InvalidParameter, op |-> xnn_delete_operator(o0), logged |-> TRUE]
  ELSE IF degenerate_shape(num_dims, input_shape)
  THEN [status |-> Success,
        op |-> [o0 EXCEPT !.state = "skip"],
        logged |-> StrideErrorLogged(num_dims, input_shape, perm, input_stride, output_stride)]
  ELSE [status |-> Success,
        op |-> BuildPlan(o0, input, output, num_dims, input_shape, perm, input_stride, output_stride, element_size),
        logged |-> StrideErrorLogged(num_dims, input_shape, perm, input_stride, output_stride)]

\* the arguments setup_transpose_nd is called with
TransposeArgs(num_dims, shape, perm, input_stride, output_stride, element_size) ==
  [num_dims |-> num_dims, shape |-> shape, perm |-> perm,
   input_stride |-> input_stride, output_stride |-> output_stride,
   element_size |-> element_size]

NoTransposeArgs == TransposeArgs(0, EmptyArr, EmptyArr, NullArr, NullArr, 0)

\* a setup that returns before it reaches setup_transpose_nd
EarlyReturn(status, o) ==
  [status |-> status, op |-> o, logged |-> TRUE, reached |-> FALSE, t |-> NoTransposeArgs]

\* return setup_transpose_nd(...)
Delegate(o, input, output, t) ==
  LET r == setup_transpose_nd(o, input, output, t.num_dims, t.shape, t.perm, t.input_stride, t.output_stride, t.element_size)
  IN [status |-> r.status, op |-> r.op, logged |-> r.logged, reached |-> TRUE, t |-> t]

----------------------------------------------------------------------------
(* xnn_create_transpose_nd_x8/x16/x32, xnn_setup_transpose_nd_x8/x16/x32 *)

Widths == {8, 16, 32}

DatatypeInitFlag(bits) ==
  CASE bits = 8 -> "X8" [] bits = 16 -> "X16" [] bits = 32 -> "X32"

TransposeType(bits) ==
  CASE bits = 8 -> "xnn_operator_type_transpose_nd_x8"
    [] bits = 16 -> "xnn_operator_type_transpose_nd_x16"
    [] bits = 32 -> "xnn_operator_type_transpose_nd_x32"

\* sizeof(uint8_t), sizeof(uint16_t), sizeof(uint32_t)
SizeOf(bits) == bits \div 8

xnn_create_transpose_nd(bits, flags, alloc) ==
  create_transpose_nd(flags, {DatatypeInitFlag(bits)}, TransposeType(bits), alloc)

xnn_setup_transpose_nd(bits, transpose_op, input, output, num_dims, shape, perm) ==
  IF transpose_op.type # TransposeType(bits)
  THEN EarlyReturn(InvalidParameter, transpose_op)
  ELSE Delegate(transpose_op, input, output,
                TransposeArgs(num_dims, shape, perm, NullArr, NullArr, SizeOf(bits)))

----------------------------------------------------------------------------
(* Depth to space, NCHW to NHWC *)

DepthToSpaceNchw2NhwcType == "xnn_operator_type_depth_to_space_nchw2nhwc_x32"

\* the create functions of the three derived operators share their body but
\* for the side the block-sized channel count is on
create_depth_to_space(output_channels, input_channel_stride, output_channel_stride, block_size, flags, operator_type, alloc) ==
  IF "XNNPACK" \notin init_flags
  THEN [status |-> Uninitialized, op |-> NoOperator]
  ELSE IF output_channels = 0
  THEN [status |-> InvalidParameter, op |-> NoOperator]
  ELSE IF output_channel_stride < output_channels
  THEN [status |-> InvalidParameter, op |-> NoOperator]
  ELSE IF block_size <= 1
  THEN [status |-> InvalidParameter, op |-> NoOperator]
  ELSE IF input_channel_stride < output_channels * block_size * block_size
  THEN [status |-> InvalidParameter, op |-> NoOperator]
  ELSE IF ~alloc
  THEN [status |-> OutOfMemory, op |-> NoOperator]
  ELSE [status |-> Success,
        op |-> [ZeroOperator EXCEPT !.channels = output_channels,
                                    !.input_pixel_stride = input_channel_stride,
                                    !.output_pixel_stride = output_channel_stride,
                                    !.block_size = block_size,
                                    !.type = operator_type,
                                    !.flags = flags,
                                    !.state = "invalid"]]

xnn_create_depth_to_space_nchw2nhwc_x32(output_channels, input_channel_stride, output_channel_stride, block_size, flags, alloc) ==
  create_depth_to_space(output_channels, input_channel_stride, output_channel_stride, block_size, flags, DepthToSpaceNchw2NhwcType, alloc)

\* derived setups without the check of the input height and width
DerivedSetupGuardBatchOnly(batch_size, input_height, input_width) ==
  IF "XNNPACK" \notin init_flags THEN Uninitialized
  ELSE IF batch_size = 0 THEN Success
  ELSE "go on"

\* the checks the three derived setups start with, after the type check and
\* state = invalid: the status to return at once, or "go on"
DerivedSetupGuard(batch_size, input_height, input_width) ==
  IF "XNNPACK" \notin init_flags THEN Uninitialized
  ELSE IF input_width = 0 \/ input_height = 0 THEN InvalidParameter
  ELSE IF batch_size = 0 THEN Success
  ELSE "go on"

\* the early returns of a derived setup
DerivedEarly(o, guard) ==
  IF guard = Success
  THEN [status |-> Success, op |-> [o EXCEPT !.state = "skip"], logged |-> FALSE,
        reached |-> FALSE, t |-> NoTransposeArgs]
  ELSE EarlyReturn(guard, [o EXCEPT !.state = "invalid"])

Nchw2NhwcProblem(o, batch_size, input_height, input_width) ==
  LET block_size == o.block_size
      channels == o.channels
      area == input_height * input_width
      elements_per_batch == area * channels
  IN TransposeArgs(6,
       (0 :> batch_size @@ 1 :> block_size @@ 2 :> block_size @@ 3 :> channels
          @@ 4 :> input_height @@ 5 :> input_width),
       (0 :> 0 @@ 1 :> 4 @@ 2 :> 1 @@ 3 :> 5 @@ 4 :> 2 @@ 5 :> 3),
       PtrTo(0 :> o.input_pixel_stride * area
             @@ 1 :> block_size * elements_per_batch
             @@ 2 :> elements_per_batch
             @@ 3 :> area
             @@ 4 :> input_width
             @@ 5 :> 1),
       PtrTo(0 :> input_height * block_size * input_width * block_size * o.output_pixel_stride
             @@ 1 :> block_size * input_width * block_size * o.output_pixel_stride
             @@ 2 :> input_width * block_size * o.output_pixel_stride
             @@ 3 :> block_size * o.output_pixel_stride
             @@ 4 :> o.output_pixel_stride
             @@ 5 :> 1),
       4)

xnn_setup_depth_to_space_nchw2nhwc_x32(depth_to_space_op, batch_size, input_height, input_width, input, output) ==
  IF depth_to_space_op.type # DepthToSpaceNchw2NhwcType
  THEN EarlyReturn(InvalidParameter, depth_to_space_op)
  ELSE IF DerivedSetupGuard(batch_size, input_height, input_width) # "go on"
  THEN DerivedEarly(depth_to_space_op, DerivedSetupGuard(batch_size, input_height, input_width))
  ELSE Delegate([depth_to_space_op EXCEPT !.state = "invalid"], input, output,
                Nchw2NhwcProblem(depth_to_space_op, batch_size, input_height, input_width))

----------------------------------------------------------------------------
(* Depth to space, NHWC *)

DepthToSpaceNhwcType(bits) ==
  CASE bits = 8 -> "xnn_operator_type_depth_to_space_nhwc_x8"
    [] bits = 16 -> "xnn_operator_type_depth_to_space_nhwc_x16"
    [] bits = 32 -> "xnn_operator_type_depth_to_space_nhwc_x32"

create_depth_to_space_nhwc(output_channels, input_channel_stride, output_channel_stride, block_size, flags, operator_type, alloc) ==
  create_depth_to_space(output_channels, input_channel_stride, output_channel_stride, block_size, flags, operator_type, alloc)

DepthToSpaceNhwcProblem(o, batch_size, input_height, input_width, element_size) ==
  LET block_size == o.block_size
      channels == o.channels
      input_pixel_stride == o.input_pixel_stride
      output_pixel_stride == o.output_pixel_stride
      block_output_pixel_stride == block_size * o.output_pixel_stride
  IN TransposeArgs(5,
       (0 :> batch_size * input_height @@ 1 :> input_width @@ 2 :> block_size
          @@ 3 :> block_size @@ 4 :> channels),
       (0 :> 0 @@ 1 :> 2 @@ 2 :> 1 @@ 3 :> 3 @@ 4 :> 4),
       PtrTo(0 :> input_width * input_pixel_stride
             @@ 1 :> input_pixel_stride
             @@ 2 :> block_size * channels
             @@ 3 :> channels
             @@ 4 :> 1),
       PtrTo(0 :> block_size * input_width * block_output_pixel_stride
             @@ 1 :> input_width * block_output_pixel_stride
             @@ 2 :> block_output_pixel_stride
             @@ 3 :> output_pixel_stride
             @@ 4 :> 1),
       element_size)

setup_depth_to_space_nhwc(depth_to_space_op, expected_operator_type, batch_size, input_height, input_width, input, output, element_size) ==
  IF depth_to_space_op.type # expected_operator_type
  THEN EarlyReturn(InvalidParameter, depth_to_space_op)
  ELSE IF DerivedSetupGuard(batch_size, input_height, input_width) # "go on"
  THEN DerivedEarly(depth_to_space_op, DerivedSetupGuard(batch_size, input_height, input_width))
  ELSE Delegate([depth_to_space_op EXCEPT !.state = "invalid"], input, output,
                DepthToSpaceNhwcProblem(depth_to_space_op, batch_size, input_height, input_width, element_size))

----------------------------------------------------------------------------
(* Space to depth, NHWC *)

SpaceToDepthNhwcType(bits) ==
  CASE bits = 8 -> "xnn_operator_type_space_to_depth_nhwc_x8"
    [] bits = 16 -> "xnn_operator_type_space_to_depth_nhwc_x16"
    [] bits = 32 -> "xnn_operator_type_space_to_depth_nhwc_x32"

\* a create that takes the block-sized channel count to be on the input side
create_space_to_depth_nhwc_blocked_input(input_channels, input_channel_stride, output_channel_stride, block_size, flags, operator_type, alloc) ==
  create_depth_to_space(input_channels, input_channel_stride, output_channel_stride, block_size, flags, operator_type, alloc)

create_space_to_depth_nhwc(input_channels, input_channel_stride, output_channel_stride, block_size, flags, operator_type, alloc) ==
  IF "XNNPACK" \notin init_flags
  THEN [status |-> Uninitialized, op |-> NoOperator]
  ELSE IF input_channels = 0
  THEN [status |-> InvalidParameter, op |-> NoOperator]
  ELSE IF input_channel_stride < input_channels
  THEN [status |-> InvalidParameter, op |-> NoOperator]
  ELSE IF block_size <= 1
  THEN [status |-> InvalidParameter, op |-> NoOperator]
  ELSE IF output_channel_stride < input_channels * block_size * block_size
  THEN [status |-> InvalidParameter, op |-> NoOperator]
  ELSE IF ~alloc
  THEN [status |-> OutOfMemory, op |-> NoOperator]
  ELSE [status |-> Success,
        op |-> [ZeroOperator EXCEPT !.channels = input_channels,
                                    !.input_pixel_stride = input_channel_stride,
                                    !.output_pixel_stride = output_channel_stride,
                                    !.block_size = block_size,
                                    !.type = operator_type,
                                    !.flags = flags,
                                    !.state = "invalid"]]

\* the depth-to-space problem in the place of the space-to-depth one
SpaceToDepthNhwcProblemBlockedInput(o, batch_size, input_height, input_width, element_size) ==
  DepthToSpaceNhwcProblem(o, batch_size, input_height, input_width, element_size)

SpaceToDepthNhwcProblem(o, batch_size, input_height, input_width, element_size) ==
  LET block_size == o.block_size IN
  TransposeArgs(5,
    (0 :> batch_size * (input_height \div block_size) @@ 1 :> block_size
       @@ 2 :> input_width \div block_size @@ 3 :> block_size @@ 4 :> o.channels),
    (0 :> 0 @@ 1 :> 2 @@ 2 :> 1 @@ 3 :> 3 @@ 4 :> 4),
    PtrTo(0 :> block_size * input_width * o.input_pixel_stride
          @@ 1 :> input_width * o.input_pixel_stride
          @@ 2 :> block_size * o.input_pixel_stride
          @@ 3 :> o.input_pixel_stride
          @@ 4 :> 1),
    PtrTo(0 :> (input_width \div block_size) * o.output_pixel_stride
          @@ 1 :> o.output_pixel_stride
          @@ 2 :> block_size * o.channels
          @@ 3 :> o.channels
          @@ 4 :> 1),
    element_size)

setup_space_to_depth_nhwc(space_to_depth_op, expected_operator_type, batch_size, input_height, input_width, input, output, element_size) ==
  IF space_to_depth_op.type # expected_operator_type
  THEN EarlyReturn(InvalidParameter, space_to_depth_op)
  ELSE IF DerivedSetupGuard(batch_size, input_height, input_width) # "go on"
  THEN DerivedEarly(space_to_depth_op, DerivedSetupGuard(batch_size, input_height, input_width))
  ELSE Delegate([space_to_depth_op EXCEPT !.state = "invalid"], input, output,
                SpaceToDepthNhwcProblem(space_to_depth_op, batch_size, input_height, input_width, element_size))

----------------------------------------------------------------------------
(* xnn_run_operator and the executor (xnnpack.h, pthreadpool; modelled     *)
(* from sections 4.3, 5 and 6 of the specification)                        *)

\* the number of loop dimensions of a parallelization type
PlanDims(type) ==
  CASE type = "xnn_parallelization_type_1d_tile_1d" -> 1
    [] type = "xnn_parallelization_type_2d_tile_2d" -> 2
    [] type = "xnn_parallelization_type_3d_tile_2d" -> 3
    [] type = "xnn_parallelization_type_4d_tile_2d" -> 4
    [] type = "xnn_parallelization_type_5d_tile_2d" -> 5
    [] type = "xnn_parallelization_type_6d_tile_2d" -> 6
    [] OTHER -> 0

RECURSIVE LoopOffsets(_, _, _, _, _)
\* the <<input offset, output offset>> pairs of the loops k .. n-1
LoopOffsets(k, n, range, input_stride, output_stride) ==
  IF k = n THEN {<<0, 0>>}
  ELSE LET inner == LoopOffsets(k + 1, n, range, input_stride, output_stride)
       IN {<<i * input_stride[k] + q[1], i * output_stride[k] + q[2]>> :
             i \in 0..(range[k] - 1), q \in inner}

\* every byte of the elements at these offsets
ElementBytes(offsets, size) ==
  {<<q[1] + b, q[2] + b>> : q \in offsets, b \in 0..(size - 1)}

\* the element size a transpose task moves
TaskElementSize(o) ==
  IF o.compute.task \in {"xnn_compute_transposec_2d", "xnn_compute_transposec_3d",
                         "xnn_compute_transposec_4d", "xnn_compute_transposec_5d",
                         "xnn_compute_transposec_6d"}
  THEN 2 ^ o.context.transpose.log2_element_size
  ELSE o.context.transpose.element_size

\* what the executor does with the stored plan: the buffers it reads and
\* writes, and the <<input byte, output byte>> offsets it moves
ExecutePlan(o) ==
  IF o.compute.task = "xnn_compute_univector_contiguous"
  THEN [x |-> o.context.univector_contiguous.x,
        y |-> o.context.univector_contiguous.y,
        pairs |-> {<<b, b>> : b \in 0..(o.compute.range[0] - 1)}]
  ELSE [x |-> o.context.transpose.x,
        y |-> o.context.transpose.y,
        pairs |-> ElementBytes(
                    LoopOffsets(0, PlanDims(o.compute.type), o.compute.range,
                                o.context.transpose.input_stride,
                                o.context.transpose.output_stride),
                    TaskElementSize(o))]

NothingExecuted == [x |-> 0, y |-> 0, pairs |-> {}]

\* the status, and whether the plan is handed to the executor
xnn_run_operator(o) ==
  CASE o.state = "ready" -> [status |-> Success, handed |-> TRUE]
    [] o.state = "skip" -> [status |-> Success, handed |-> FALSE]
    [] OTHER -> [status |-> Uninitialized, handed |-> FALSE]

----------------------------------------------------------------------------
(* run_transpose_nd, xnn_run_transpose_nd_x8/x16/x32 *)

\* The operator is a local variable of run_transpose_nd.  released: the
\* setup failed and its error label has passed the address of that local
\* variable to xnn_delete_operator.
\* return xnn_run_operator(&transpose_op, threadpool), r being what it returns
OneShotRun(r, transpose_op, t) ==
  [status |-> r.status, handed |-> r.handed,
   done |-> IF r.handed THEN ExecutePlan(transpose_op) ELSE NothingExecuted,
   released |-> FALSE, t |-> t]

\* the statements after the call of setup_transpose_nd, s being what it
\* returned and left of the local operator
OneShotAfterSetup(s, t) ==
  IF s.status # Success
  THEN [status |-> s.status, handed |-> FALSE, done |-> NothingExecuted,
        released |-> ~s.op.alive, t |-> t]
  ELSE OneShotRun(xnn_run_operator(s.op), s.op, t)

\* the statements after the call of init_transpose_nd, i being what it
\* returned and left of the local operator
OneShotAfterInit(i, input, output, t) ==
  IF i.status # Success
  THEN [status |-> i.status, handed |-> FALSE, done |-> NothingExecuted,
        released |-> FALSE, t |-> NoTransposeArgs]
  ELSE OneShotAfterSetup(Delegate(i.op, input, output, t), t)

run_transpose_nd(flags, input, output, num_dims, input_shape, output_perm, element_size, datatype_init_flags, operator_type) ==
  IF "XNNPACK" \notin init_flags
  THEN [status |-> Uninitialized, handed |-> FALSE, done |-> NothingExecuted,
        released |-> FALSE, t |-> NoTransposeArgs]
  ELSE OneShotAfterInit(init_transpose_nd(flags, datatype_init_flags, operator_type, ZeroOperator),
                        input, output,
                        TransposeArgs(num_dims, input_shape, output_perm, NullArr, NullArr, element_size))

xnn_run_transpose_nd(bits, input, output, num_dims, input_shape, output_perm, flags) ==
  run_transpose_nd(flags, input, output, num_dims, input_shape, output_perm, SizeOf(bits), {DatatypeInitFlag(bits)}, TransposeType(bits))

----------------------------------------------------------------------------
(* The arguments the calls are enumerated over *)

FlagValues == {1}

\* the <<input, output>> buffers of a setup call
Buffers == {<<1, 2>>, <<3, 4>>}

\* the states xnn_params.init_flags is left in by the library's initialisation
InitFlagSets == {{}, {"XNNPACK", "X32"}, InitFlagBits}

Ranks == 0..(XNN_MAX_TENSOR_DIMS + 1)

Identity(n) == [i \in 0..(n - 1) |-> i]
Reverse(n) == [i \in 0..(n - 1) |-> n - 1 - i]
Rotate(n) == [i \in 0..(n - 1) |-> (i + 1) % n]

IsPermutation(n, perm) ==
  /\ \A i \in 0..(n - 1) : perm[i] \in 0..(n - 1)
  /\ \A i, j \in 0..(n - 1) : perm[i] = perm[j] => i = j

AllPermutations(n) == {f \in [0..(n - 1) -> 0..(n - 1)] : IsPermutation(n, f)}

\* perm arrays that are no permutation: a repeated entry, an entry = n, an
\* entry > n
BadPerms(n) ==
  {p \in {[Identity(n) EXCEPT ![n - 1] = 0], [Identity(n) EXCEPT ![0] = n],
           [Reverse(n) EXCEPT ![n - 1] = n + 1]} : ~IsPermutation(n, p)}

Alternating(n) == [i \in 0..(n - 1) |-> IF i % 2 = 0 THEN 1 ELSE MaxExtent]

\* a few perm arrays and shapes of every rank
SomePerms(n) ==
  IF n \in 1..XNN_MAX_TENSOR_DIMS
  THEN {Identity(n), Reverse(n), Rotate(n)} \cup BadPerms(n)
  ELSE {Identity(n)}

SomeShapes(n) ==
  IF n \in 1..XNN_MAX_TENSOR_DIMS
  THEN {Arr(n, MaxExtent), Alternating(n), [Arr(n, MaxExtent) EXCEPT ![n - 1] = 0]}
  ELSE {Arr(n, MaxExtent)}

\* the ranks, perm arrays and shapes of the setup calls in the life of one
\* operator
LifeRanks == (0..MaxLifeRank) \cup {XNN_MAX_TENSOR_DIMS + 1}

LifePerms(n) ==
  IF n \in 1..XNN_MAX_TENSOR_DIMS
  THEN {Identity(n), Reverse(n), [Identity(n) EXCEPT ![0] = n]}
  ELSE {Identity(n)}

LifeShapes(n) ==
  IF n \in 1..XNN_MAX_TENSOR_DIMS
  THEN {Arr(n, MaxExtent), [Arr(n, MaxExtent) EXCEPT ![n - 1] = 0]}
  ELSE {Arr(n, MaxExtent)}

\* every perm array and shape of the small ranks, every permutation of the
\* middle ranks
PermInputs(n) ==
  IF n \in 1..MaxFullRank THEN [0..(n - 1) -> 0..n]
  ELSE IF n \in 1..MaxPermRank THEN AllPermutations(n) \cup BadPerms(n)
  ELSE SomePerms(n)

\* a rank-3 shape with three different extents
RoundTripShape == (0 :> 2 @@ 1 :> 3 @@ 2 :> 4)

ShapeInputs(n) ==
  IF n \in 1..MaxFullRank THEN [0..(n - 1) -> 0..MaxExtent]
  ELSE IF n \in 1..XNN_MAX_TENSOR_DIMS
  THEN SomeShapes(n) \cup {Arr(n, c) : c \in 1..MaxExtent}
         \cup {[Arr(n, MaxExtent) EXCEPT ![0] = 0]}
         \cup (IF n = 3 THEN {RoundTripShape} ELSE {})
  ELSE SomeShapes(n)

RECURSIVE PaddedFrom(_, _, _)
\* the stride of dimension i when every dimension is padded by one element
PaddedFrom(extent, i, n) ==
  IF i >= n - 1 THEN 1 ELSE PaddedFrom(extent, i + 1, n) * extent[i + 1] + 1

StrideVariants == {"packed", "padded", "doubled", "ones"}

StrideVariant(v, n, extent) ==
  CASE v = "packed" -> PackedStrides(n, extent)
    [] v = "padded" -> [i \in 0..(n - 1) |-> PaddedFrom(extent, i, n)]
    [] v = "doubled" -> [i \in 0..(n - 1) |-> 2 * ProdFrom(extent, i + 1, n)]
    [] v = "ones" -> Arr(n, 1)

\* the <<input_stride, output_stride>> arguments tried with a shape and a
\* permutation
StrideInputs(n, shape, perm) ==
  IF n \in 1..XNN_MAX_TENSOR_DIMS /\ IsPermutation(n, perm)
  THEN {<<NullArr, NullArr>>}
       \cup {<<PtrTo(StrideVariant(v, n, shape)), NullArr>> : v \in StrideVariants}
       \cup {<<NullArr, PtrTo(StrideVariant(v, n, OutputShape(n, perm, shape)))>> : v \in StrideVariants}
       \cup {<<PtrTo(StrideVariant(v, n, shape)),
               PtrTo(StrideVariant(w, n, OutputShape(n, perm, shape)))>> :
               v \in {"packed", "padded"}, w \in {"packed", "padded"}}
  ELSE {<<NullArr, NullArr>>}

\* the channel strides tried around a required channel count
StridesAround(required) == {k \in (required - 1)..required : k >= 0}

----------------------------------------------------------------------------
(* The history variables *)

NoArgs ==
  [num_dims |-> 0, shape |-> EmptyArr, perm |-> EmptyArr,
   batch_size |-> 0, input_height |-> 0, input_width |-> 0]

NoCall ==
  [kind |-> "none", fn |-> "none", bits |-> 0, status |-> Success,
   live |-> FALSE, before |-> "none",
   input |-> 0, output |-> 0, args |-> NoArgs,
   logged |-> FALSE, reached |-> FALSE, t |-> NoTransposeArgs,
   handed |-> FALSE, done |-> NothingExecuted,
   released |-> FALSE, crashed |-> FALSE]

NotCreated ==
  [fn |-> "none", bits |-> 0, channels |-> 0, input_channel_stride |-> 0,
   output_channel_stride |-> 0, block_size |-> 0, flags |-> 0, alloc |-> FALSE,
   op |-> NoOperator]

TransposeCallArgs(num_dims, shape, perm) ==
  [NoArgs EXCEPT !.num_dims = num_dims, !.shape = shape, !.perm = perm]

ImageCallArgs(batch_size, input_height, input_width) ==
  [NoArgs EXCEPT !.batch_size = batch_size, !.input_height = input_height,
                 !.input_width = input_width]

\* the record of a setup call whose result is r
SetupCall(fn, bits, buf, args, r) ==
  [NoCall EXCEPT !.kind = "setup", !.fn = fn, !.bits = bits, !.status = r.status,
                 !.live = TRUE, !.before = op.state,
                 !.input = buf[1], !.output = buf[2], !.args = args,
                 !.logged = r.logged, !.reached = r.reached, !.t = r.t]

----------------------------------------------------------------------------
(* The calls of the API on the caller's one handle *)

Init ==
  /\ init_flags \in InitFlagSets
  /\ op = NoOperator
  /\ created = NotCreated
  /\ call = NoCall

NoHandle == op.type = "none"

\* a create call that returned r
Create(fn, bits, channels, input_channel_stride, output_channel_stride, block_size, flags, alloc, r) ==
  /\ op' = r.op
  /\ created' = [fn |-> fn, bits |-> bits, channels |-> channels,
                 input_channel_stride |-> input_channel_stride,
                 output_channel_stride |-> output_channel_stride,
                 block_size |-> block_size, flags |-> flags, alloc |-> alloc, op |-> r.op]
  /\ call' = [NoCall EXCEPT !.kind = "create", !.fn = fn, !.bits = bits, !.status = r.status]
  /\ UNCHANGED init_flags

XnnCreateTransposeNd ==
  /\ NoHandle
  /\ \E bits \in Widths, flags \in FlagValues, alloc \in BOOLEAN :
       Create("xnn_create_transpose_nd", bits, 0, 0, 0, 0, flags, alloc,
              xnn_create_transpose_nd(bits, flags, alloc))

XnnCreateDepthToSpaceNchw2Nhwc ==
  /\ NoHandle
  /\ \E channels \in 0..MaxChannels, block_size \in 0..MaxBlock, flags \in FlagValues, alloc \in BOOLEAN :
       \E ocs \in StridesAround(channels), ics \in StridesAround(channels * block_size * block_size) :
          Create("xnn_create_depth_to_space_nchw2nhwc_x32", 32, channels, ics, ocs, block_size, flags, alloc,
                 xnn_create_depth_to_space_nchw2nhwc_x32(channels, ics, ocs, block_size, flags, alloc))

XnnCreateDepthToSpaceNhwc ==
  /\ NoHandle
  /\ \E bits \in Widths, channels \in 0..MaxChannels, block_size \in 0..MaxBlock, flags \in FlagValues, alloc \in BOOLEAN :
       \E ocs \in StridesAround(channels), ics \in StridesAround(channels * block_size * block_size) :
          Create("xnn_create_depth_to_space_nhwc", bits, channels, ics, ocs, block_size, flags, alloc,
                 create_depth_to_space_nhwc(channels, ics, ocs, block_size, flags, DepthToSpaceNhwcType(bits), alloc))

XnnCreateSpaceToDepthNhwc ==
  /\ NoHandle
  /\ \E bits \in Widths, channels \in 0..MaxChannels, block_size \in 0..MaxBlock, flags \in FlagValues, alloc \in BOOLEAN :
       \E ics \in StridesAround(channels), ocs \in StridesAround(channels * block_size * block_size) :
          Create("xnn_create_space_to_depth_nhwc", bits, channels, ics, ocs, block_size, flags, alloc,
                 create_space_to_depth_nhwc(channels, ics, ocs, block_size, flags, SpaceToDepthNhwcType(bits), alloc))

\* a setup call that returned r
Setup(fn, bits, buf, args, r) ==
  /\ op' = r.op
  /\ call' = SetupCall(fn, bits, buf, args, r)
  /\ UNCHANGED <<init_flags, created>>

\* a setup function called on an operator of another type returns before it
\* reads its arguments: such calls are made with these arguments only
ProbeBuffer == <<1, 2>>
ProbeImage == ImageCallArgs(1, 1, 1)
ProbeTranspose == TransposeCallArgs(1, Arr(1, MaxExtent), Identity(1))

XnnSetupTransposeNd ==
  /\ op.alive
  /\ \E bits \in Widths, buf \in Buffers, n \in LifeRanks :
       \E perm \in LifePerms(n), shape \in LifeShapes(n) :
          /\ \/ op.type = TransposeType(bits)
             \/ buf = ProbeBuffer /\ TransposeCallArgs(n, shape, perm) = ProbeTranspose
          /\ Setup("xnn_setup_transpose_nd", bits, buf, TransposeCallArgs(n, shape, perm),
                   xnn_setup_transpose_nd(bits, op, buf[1], buf[2], n, shape, perm))

\* every batch size and input height, the smallest and the largest input width
ImageInputs ==
  {ImageCallArgs(b, h, w) : b \in 0..MaxBatch, h \in 0..MaxImage, w \in {0, MaxImage}}

XnnSetupDepthToSpaceNchw2Nhwc ==
  /\ op.alive
  /\ \E buf \in {ProbeBuffer}, a \in ImageInputs :
       /\ \/ op.type = DepthToSpaceNchw2NhwcType
          \/ buf = ProbeBuffer /\ a = ProbeImage
       /\ Setup("xnn_setup_depth_to_space_nchw2nhwc_x32", 32, buf, a,
                xnn_setup_depth_to_space_nchw2nhwc_x32(op, a.batch_size, a.input_height, a.input_width, buf[1], buf[2]))

XnnSetupDepthToSpaceNhwc ==
  /\ op.alive
  /\ \E bits \in Widths, buf \in {ProbeBuffer}, a \in ImageInputs :
       /\ \/ op.type = DepthToSpaceNhwcType(bits)
          \/ buf = ProbeBuffer /\ a = ProbeImage
       /\ Setup("xnn_setup_depth_to_space_nhwc", bits, buf, a,
                setup_depth_to_space_nhwc(op, DepthToSpaceNhwcType(bits), a.batch_size, a.input_height, a.input_width, buf[1], buf[2], SizeOf(bits)))

XnnSetupSpaceToDepthNhwc ==
  /\ op.alive
  /\ \E bits \in Widths, buf \in {ProbeBuffer}, a \in ImageInputs :
       /\ \/ op.type = SpaceToDepthNhwcType(bits)
          \/ buf = ProbeBuffer /\ a = ProbeImage
       /\ Setup("xnn_setup_space_to_depth_nhwc", bits, buf, a,
                setup_space_to_depth_nhwc(op, SpaceToDepthNhwcType(bits), a.batch_size, a.input_height, a.input_width, buf[1], buf[2], SizeOf(bits)))

\* a one-shot call that returned r, or did not return
OneShot(bits, buf, args, crashed, r) ==
  /\ crashed => r.released
  /\ call' = [NoCall EXCEPT !.kind = "oneshot", !.fn = "xnn_run_transpose_nd",
                            !.bits = bits, !.status = r.status,
                            !.input = buf[1], !.output = buf[2],
                            !.args = args,
                            !.t = r.t, !.handed = r.handed, !.done = r.done,
                            !.released = r.released, !.crashed = crashed]
  /\ created' = NotCreated
  /\ UNCHANGED <<init_flags, op>>

\* The one-shot run.  When its setup fails, the local operator has been
\* passed to xnn_delete_operator, which releases memory that was never
\* allocated: the call may return the status of the setup or never return.
XnnRunTransposeNd ==
  /\ NoHandle
  /\ \E bits \in Widths, flags \in FlagValues, buf \in Buffers, n \in LifeRanks :
       \E perm \in LifePerms(n), shape \in LifeShapes(n), crashed \in BOOLEAN :
          OneShot(bits, buf, TransposeCallArgs(n, shape, perm), crashed,
                  xnn_run_transpose_nd(bits, buf[1], buf[2], n, shape, perm, flags))

XnnRunOperator ==
  /\ op.alive
  /\ LET r == xnn_run_operator(op) IN
       call' = [NoCall EXCEPT !.kind = "run", !.fn = "xnn_run_operator",
                              !.status = r.status, !.live = TRUE, !.before = op.state,
                              !.handed = r.handed,
                              !.done = IF r.handed THEN ExecutePlan(op) ELSE NothingExecuted]
  /\ UNCHANGED <<init_flags, op, created>>

XnnDeleteOperator ==
  /\ op.alive
  /\ op' = NoOperator
  /\ created' = NotCreated
  /\ call' = [NoCall EXCEPT !.kind = "delete", !.fn = "xnn_delete_operator",
                            !.live = TRUE, !.before = op.state]
  /\ UNCHANGED init_flags

\* The caller still holds the handle of an operator a failed setup has
\* released, and calls setup, run or delete on it: a use of released memory,
\* which may return any status and may or may not start the executor.
UseAfterRelease ==
  /\ Dangling
  /\ \E kind \in {"setup", "run", "delete"}, status \in Statuses, handed \in BOOLEAN :
       /\ handed => kind = "run"
       /\ call' = [NoCall EXCEPT !.kind = kind, !.fn = "use after release",
                                 !.status = status, !.before = "released",
                                 !.handed = handed]
       /\ op' = IF kind = "delete" THEN NoOperator ELSE op
       /\ created' = IF kind = "delete" THEN NotCreated ELSE created
  /\ UNCHANGED init_flags

Next ==
  \/ XnnCreateTransposeNd
  \/ XnnCreateDepthToSpaceNchw2Nhwc
  \/ XnnCreateDepthToSpaceNhwc
  \/ XnnCreateSpaceToDepthNhwc
  \/ XnnSetupTransposeNd
  \/ XnnSetupDepthToSpaceNchw2Nhwc
  \/ XnnSetupDepthToSpaceNhwc
  \/ XnnSetupSpaceToDepthNhwc
  \/ XnnRunTransposeNd
  \/ XnnRunOperator
  \/ XnnDeleteOperator
  \/ UseAfterRelease

Spec == Init /\ [][Next]_vars

----------------------------------------------------------------------------
(* setup_transpose_nd as a function of its arguments: one call, with or    *)
(* without explicit strides, on a freshly created transpose operator, and  *)
(* the run that follows it                                                 *)

SetupInit ==
  /\ init_flags = InitFlagBits
  /\ \E bits \in Widths, flags \in FlagValues :
       LET r == xnn_create_transpose_nd(bits, flags, TRUE) IN
         /\ op = r.op
         /\ created = [NotCreated EXCEPT !.fn = "xnn_create_transpose_nd", !.bits = bits,
                                         !.flags = flags, !.alloc = TRUE, !.op = r.op]
         /\ call = [NoCall EXCEPT !.kind = "create", !.fn = "xnn_create_transpose_nd",
                                  !.bits = bits, !.status = r.status]

SetupTransposeNd ==
  /\ op.alive
  /\ call.kind = "create"
  /\ \E buf \in {ProbeBuffer}, n \in Ranks :
       \E perm \in PermInputs(n), shape \in ShapeInputs(n) :
          \E strides \in StrideInputs(n, shape, perm) :
             Setup("setup_transpose_nd", created.bits, buf, TransposeCallArgs(n, shape, perm),
                   Delegate(op, buf[1], buf[2],
                            TransposeArgs(n, shape, perm, strides[1], strides[2], SizeOf(created.bits))))

SetupNext == SetupTransposeNd \/ XnnRunOperator

SetupSpec == SetupInit /\ [][SetupNext]_vars

----------------------------------------------------------------------------
(* Space-to-depth on a packed NHWC buffer, then depth-to-space with the    *)
(* same block size on what it wrote: buffer 1 -> buffer 2 -> buffer 3      *)

BlockInit ==
  /\ init_flags = InitFlagBits
  /\ \E bits \in Widths, channels \in 1..MaxChannels, block_size \in 2..MaxBlock, flags \in FlagValues :
       LET ocs == channels * block_size * block_size
           r == create_space_to_depth_nhwc(channels, channels, ocs, block_size, flags, SpaceToDepthNhwcType(bits), TRUE) IN
         /\ op = r.op
         /\ created = [fn |-> "xnn_create_space_to_depth_nhwc", bits |-> bits, channels |-> channels,
                       input_channel_stride |-> channels, output_channel_stride |-> ocs,
                       block_size |-> block_size, flags |-> flags, alloc |-> TRUE, op |-> r.op]
         /\ call = [NoCall EXCEPT !.kind = "create", !.fn = "xnn_create_space_to_depth_nhwc",
                                  !.bits = bits, !.status = r.status]

\* the space-to-depth setup of an image whose sides are multiples of the
\* block size
BlockSpaceToDepth ==
  /\ call.kind = "create"
  /\ \E batch_size \in 1..(MaxBatch + 1), rows \in 1..(MaxTiles + 1), cols \in 1..(MaxTiles + 1) :
       LET a == ImageCallArgs(batch_size, rows * created.block_size, cols * created.block_size) IN
         Setup("xnn_setup_space_to_depth_nhwc", created.bits, <<1, 2>>, a,
               setup_space_to_depth_nhwc(op, SpaceToDepthNhwcType(created.bits), a.batch_size, a.input_height, a.input_width, 1, 2, SizeOf(created.bits)))

\* The space-to-depth operator has run; the depth-to-space operator of the
\* same block size is created and set up on the buffer it wrote.  call.done
\* keeps what the space-to-depth run moved.
BlockDepthToSpace ==
  /\ call.kind = "setup"
  /\ call.fn = "xnn_setup_space_to_depth_nhwc"
  /\ xnn_run_operator(op).handed
  /\ LET block_size == created.block_size
         c == create_depth_to_space_nhwc(created.channels, created.output_channel_stride, created.input_channel_stride, block_size, created.flags, DepthToSpaceNhwcType(created.bits), TRUE)
         a == ImageCallArgs(call.args.batch_size, call.args.input_height \div block_size, call.args.input_width \div block_size)
         r == setup_depth_to_space_nhwc(c.op, DepthToSpaceNhwcType(created.bits), a.batch_size, a.input_height, a.input_width, 2, 3, SizeOf(created.bits))
     IN /\ op' = r.op
        /\ created' = [created EXCEPT !.fn = "xnn_create_depth_to_space_nhwc",
                                      !.input_channel_stride = created.output_channel_stride,
                                      !.output_channel_stride = created.input_channel_stride,
                                      !.op = c.op]
        /\ call' = [SetupCall("xnn_setup_depth_to_space_nhwc", created.bits, <<2, 3>>, a, r)
                      EXCEPT !.before = c.op.state, !.done = ExecutePlan(op)]
  /\ UNCHANGED init_flags

BlockNext == BlockSpaceToDepth \/ BlockDepthToSpace

BlockSpec == BlockInit /\ [][BlockNext]_vars

----------------------------------------------------------------------------
(* What the claims are stated with *)

IsSetup == call.kind = "setup" /\ call.live

\* the last call went through setup_transpose_nd with a rank in 1..6
ReachedTranspose ==
  IsSetup /\ call.reached /\ call.t.num_dims \in 1..XNN_MAX_TENSOR_DIMS

HasZeroExtent(shape) == \E i \in DOMAIN shape : shape[i] = 0

\* the operator type a setup function expects
ExpectedType(fn, bits) ==
  CASE fn = "xnn_setup_transpose_nd" -> TransposeType(bits)
    [] fn = "xnn_setup_depth_to_space_nchw2nhwc_x32" -> DepthToSpaceNchw2NhwcType
    [] fn = "xnn_setup_depth_to_space_nhwc" -> DepthToSpaceNhwcType(bits)
    [] fn = "xnn_setup_space_to_depth_nhwc" -> SpaceToDepthNhwcType(bits)
    [] OTHER -> created.op.type

DerivedSetups ==
  {"xnn_setup_depth_to_space_nchw2nhwc_x32", "xnn_setup_depth_to_space_nhwc",
   "xnn_setup_space_to_depth_nhwc"}

\* the last call was a setup of the operator's own type
MatchingSetup == IsSetup /\ created.op.type = ExpectedType(call.fn, call.bits)

\* the setup call c made on operator o
ApplySetup(o, c) ==
  CASE c.fn = "xnn_setup_transpose_nd" ->
         xnn_setup_transpose_nd(c.bits, o, c.input, c.output, c.args.num_dims, c.args.shape, c.args.perm)
    [] c.fn = "xnn_setup_depth_to_space_nchw2nhwc_x32" ->
         xnn_setup_depth_to_space_nchw2nhwc_x32(o, c.args.batch_size, c.args.input_height, c.args.input_width, c.input, c.output)
    [] c.fn = "xnn_setup_depth_to_space_nhwc" ->
         setup_depth_to_space_nhwc(o, DepthToSpaceNhwcType(c.bits), c.args.batch_size, c.args.input_height, c.args.input_width, c.input, c.output, SizeOf(c.bits))
    [] c.fn = "xnn_setup_space_to_depth_nhwc" ->
         setup_space_to_depth_nhwc(o, SpaceToDepthNhwcType(c.bits), c.args.batch_size, c.args.input_height, c.args.input_width, c.input, c.output, SizeOf(c.bits))
    [] OTHER -> Delegate(o, c.input, c.output, c.t)

\* what run consumes of an operator: its state and, when it is ready, the
\* plan and the buffers the executor is started with
Consumed(o) ==
  [state |-> o.state,
   type |-> IF o.state = "ready" THEN o.compute.type ELSE "none",
   task |-> IF o.state = "ready" THEN o.compute.task ELSE "none",
   tile |-> IF o.state = "ready" THEN o.compute.tile ELSE Arr(2, "0"),
   range |-> IF o.state = "ready" THEN Prefix(o.compute.range, PlanDims(o.compute.type)) ELSE EmptyArr,
   input_stride |-> IF o.state = "ready" /\ PlanDims(o.compute.type) > 1
                    THEN Prefix(o.context.transpose.input_stride, PlanDims(o.compute.type))
                    ELSE EmptyArr,
   output_stride |-> IF o.state = "ready" /\ PlanDims(o.compute.type) > 1
                     THEN Prefix(o.context.transpose.output_stride, PlanDims(o.compute.type))
                     ELSE EmptyArr,
   moved |-> IF o.state = "ready" THEN ExecutePlan(o) ELSE NothingExecuted]

\* the strides of a problem in elements, NULL standing for packed strides
ProblemInputStride(t) ==
  IF t.input_stride.null THEN PackedStrides(t.num_dims, t.shape) ELSE t.input_stride.at

ProblemOutputStride(t) ==
  IF t.output_stride.null
  THEN PackedStrides(t.num_dims, OutputShape(t.num_dims, t.perm, t.shape))
  ELSE t.output_stride.at

\* the index tuples of a shape
Indices(n, shape) ==
  LET largest == CHOOSE m \in {shape[d] : d \in 0..(n - 1)} : \A d \in 0..(n - 1) : shape[d] <= m
  IN {idx \in [0..(n - 1) -> 0..(largest - 1)] : \A d \in 0..(n - 1) : idx[d] < shape[d]}

RECURSIVE Dot(_, _, _)
\* idx[0] * w[0] + ... + idx[n-1] * w[n-1]
Dot(n, idx, w) == IF n = 0 THEN 0 ELSE Dot(n - 1, idx, w) + idx[n - 1] * w[n - 1]

\* the <<input byte, output byte>> offsets of a transpose problem, read off
\* its shape, permutation and strides: output index k is input index perm[k]
DirectPairs(t) ==
  LET is == ProblemInputStride(t)
      os == ProblemOutputStride(t)
  IN {<<Dot(t.num_dims, idx, is) * t.element_size + b,
        Dot(t.num_dims, [k \in 0..(t.num_dims - 1) |-> idx[t.perm[k]]], os) * t.element_size + b>> :
        idx \in Indices(t.num_dims, t.shape), b \in 0..(t.element_size - 1)}

\* the normalized problem of a call of setup_transpose_nd
Normalized(t) ==
  xnn_normalize_transpose_permutation(t.num_dims, t.element_size, t.perm, t.shape, t.input_stride, t.output_stride)

\* the bytes the stored plan covers: the product of its extents times the
\* size of the element it moves
PlanBytes(o) ==
  IF o.compute.task = "xnn_compute_univector_contiguous"
  THEN o.compute.range[0]
  ELSE ProdFrom(o.compute.range, 0, PlanDims(o.compute.type)) * TaskElementSize(o)

----------------------------------------------------------------------------
(* Claims *)

\* C1: with a rank in 1..6, setup_transpose_nd succeeds exactly when perm is
\* a permutation of 0..num_dims-1; an out-of-range or repeated entry makes it
\* return InvalidParameter, whatever the shape is (a zero extent included).
C1_Bijectivity ==
  ReachedTranspose =>
    /\ call.status = Success <=> IsPermutation(call.t.num_dims, call.t.perm)
    /\ ~IsPermutation(call.t.num_dims, call.t.perm) => call.status = InvalidParameter

\* a rank-6 setup with a repeated perm entry and a zero extent was rejected
C1_Witness ==
  /\ ReachedTranspose
  /\ call.t.num_dims = XNN_MAX_TENSOR_DIMS
  /\ ~PermOutOfRange(call.t.num_dims, call.t.perm)
  /\ ~IsPermutation(call.t.num_dims, call.t.perm)
  /\ HasZeroExtent(call.t.shape)
  /\ call.status = InvalidParameter

\* C2: a setup that fails validation leaves the operator in existence,
\* changed in nothing but its state, which is invalid (so that a later setup
\* with valid arguments can make it ready).
C2_FailedSetupKeepsOperator ==
  (MatchingSetup /\ call.status # Success) =>
    /\ op.alive
    /\ op.state = "invalid"
    /\ op.type = created.op.type
    /\ op.flags = created.op.flags
    /\ op.block_size = created.op.block_size

\* C3: a successful setup leaves what run consumes (state, plan, buffers)
\* equal to what the same setup leaves on the operator as it was created,
\* whatever setups came before it.
C3_SetupDependsOnLastCallOnly ==
  (MatchingSetup /\ call.status = Success) =>
    Consumed(op) = Consumed(ApplySetup(created.op, call).op)

\* C4: setup_transpose_nd returns InvalidParameter when an explicit input or
\* output stride array has a last entry other than 1.
C4_LastStrideMustBeOne ==
  (ReachedTranspose /\ IsPermutation(call.t.num_dims, call.t.perm)
     /\ ~HasZeroExtent(call.t.shape)
     /\ \/ ~call.t.input_stride.null
           /\ LastStrideNotOne(call.t.num_dims, call.t.input_stride.at)
        \/ ~call.t.output_stride.null
           /\ LastStrideNotOne(call.t.num_dims, call.t.output_stride.at)) =>
    call.status = InvalidParameter /\ op.state # "ready"

\* C5: setup_transpose_nd returns InvalidParameter when an explicit stride
\* array has stride[i-1] < stride[i] * extent[i] for some i (extent the input
\* shape for input strides, the permuted shape for output strides), so no
\* ready operator holds a plan made from such strides.
C5_StridesMustNotOverlap ==
  (ReachedTranspose /\ IsPermutation(call.t.num_dims, call.t.perm)
     /\ ~HasZeroExtent(call.t.shape)
     /\ \/ ~call.t.input_stride.null
           /\ StrideOrderViolated(call.t.num_dims, call.t.shape, call.t.input_stride.at)
        \/ ~call.t.output_stride.null
           /\ StrideOrderViolated(call.t.num_dims, OutputShape(call.t.num_dims, call.t.perm, call.t.shape), call.t.output_stride.at)) =>
    call.status = InvalidParameter /\ op.state # "ready"

\* C6: setup_transpose_nd rejects rank 0 and every rank above 6 with
\* InvalidParameter, and accepts every rank in 1..6 whose perm is a
\* permutation.
C6_RankBounds ==
  (IsSetup /\ call.reached) =>
    /\ (call.t.num_dims = 0 \/ call.t.num_dims > 6) => call.status = InvalidParameter
    /\ (call.t.num_dims \in 1..6 /\ IsPermutation(call.t.num_dims, call.t.perm)) =>
         call.status = Success

\* a setup of rank 7 was rejected
C6_Witness ==
  /\ IsSetup /\ call.reached
  /\ call.t.num_dims = 7
  /\ call.status = InvalidParameter

\* C7 as written: whenever some shape[i] is 0 in a setup call, setup returns
\* success and the state is skip.
C7_AnyZeroExtentSkips ==
  (IsSetup /\ call.reached /\ HasZeroExtent(call.t.shape)) =>
    call.status = Success /\ op.state = "skip"

\* C7: whenever the rank is in 1..6, perm is a permutation and some shape[i]
\* is 0, setup returns success and sets the state to skip without building
\* a plan; a run in state skip returns success, is handed no plan and writes
\* nothing.
C7_ValidZeroExtentSkips ==
  /\ (ReachedTranspose /\ IsPermutation(call.t.num_dims, call.t.perm)
        /\ HasZeroExtent(call.t.shape)) =>
       /\ call.status = Success
       /\ op = [created.op EXCEPT !.state = "skip"]
  /\ (call.kind = "run" /\ call.before = "skip") =>
       /\ call.status = Success
       /\ ~call.handed
       /\ call.done.pairs = {}
       /\ op.state = "skip"

\* a run of an operator whose setup found a zero extent
C7_Witness ==
  /\ call.kind = "run"
  /\ call.before = "skip"
  /\ call.status = Success
  /\ op = [created.op EXCEPT !.state = "skip"]

C9_RunFollowsState ==
  call.kind = "run" =>
    /\ call.handed => call.before = "ready"
    /\ call.before = "ready" => call.handed
    /\ call.before = "skip" => call.status = Success /\ ~call.handed
    /\ call.before \notin {"ready", "skip"} => call.status = Uninitialized /\ ~call.handed
    /\ call.live => op.state = call.before

\* C10: for a setup that succeeded on a problem without zero extents and
\* with strides that pass the stride rules, the byte offset pairs the stored
\* plan moves are those of (shape, perm, strides), and the plan's extents
\* times the element size it moves is element_size times the product of
\* shape.
C10_AddressSetPreserved ==
  (ReachedTranspose /\ call.status = Success /\ op.state = "ready" /\ ~call.logged) =>
    /\ ExecutePlan(op).pairs = DirectPairs(call.t)
    /\ PlanBytes(op) = call.t.element_size * ProdFrom(call.t.shape, 0, call.t.num_dims)

\* a rank-3 reversal with padded input strides was set up as a 3-D plan
C10_Witness ==
  /\ ReachedTranspose /\ call.status = Success /\ op.state = "ready" /\ ~call.logged
  /\ call.t.num_dims = 3
  /\ call.t.shape = Arr(3, MaxExtent)
  /\ call.t.perm = Reverse(3)
  /\ ~call.t.input_stride.null
  /\ call.t.input_stride.at # PackedStrides(3, call.t.shape)
  /\ op.compute.type = "xnn_parallelization_type_3d_tile_2d"


DerivedCreates ==
  {"xnn_create_depth_to_space_nchw2nhwc_x32", "xnn_create_depth_to_space_nhwc",
   "xnn_create_space_to_depth_nhwc"}

\* the channel stride of the side without the block factor, and of the side
\* with it, in the arguments of a create call of a derived operator
UnblockedStride(c) ==
  IF c.fn = "xnn_create_space_to_depth_nhwc" THEN c.input_channel_stride
  ELSE c.output_channel_stride

BlockedStride(c) ==
  IF c.fn = "xnn_create_space_to_depth_nhwc" THEN c.output_channel_stride
  ELSE c.input_channel_stride

ValidDerivedConfig(c) ==
  /\ c.channels >= 1
  /\ c.block_size > 1
  /\ UnblockedStride(c) >= c.channels
  /\ BlockedStride(c) >= c.channels * c.block_size * c.block_size

\* C11: create of a depth-to-space or space-to-depth operator succeeds
\* exactly when the backend is initialized, channels >= 1, block_size > 1,
\* the stride of the unblocked side >= channels, the stride of the blocked
\* side >= channels * block_size^2 and the allocation succeeds; otherwise it
\* returns Uninitialized (checked first), InvalidParameter or OutOfMemory,
\* and no operator.
C11_DerivedCreate ==
  (call.kind = "create" /\ call.fn \in DerivedCreates) =>
    /\ call.status = Success <=>
         ("XNNPACK" \in init_flags /\ ValidDerivedConfig(created) /\ created.alloc)
    /\ "XNNPACK" \notin init_flags => call.status = Uninitialized
    /\ ("XNNPACK" \in init_flags /\ ~ValidDerivedConfig(created)) =>
         call.status = InvalidParameter
    /\ ("XNNPACK" \in init_flags /\ ValidDerivedConfig(created) /\ ~created.alloc) =>
         call.status = OutOfMemory
    /\ call.status # Success => op = NoOperator
    /\ call.status = Success => op.alive

\* a space-to-depth create was rejected for an output channel stride one
\* short of channels * block_size^2, everything else being valid
C11_Witness ==
  /\ call.kind = "create"
  /\ call.fn = "xnn_create_space_to_depth_nhwc"
  /\ "XNNPACK" \in init_flags
  /\ created.channels >= 1 /\ created.block_size > 1 /\ created.alloc
  /\ created.input_channel_stride >= created.channels
  /\ created.output_channel_stride + 1 = created.channels * created.block_size * created.block_size
  /\ call.status = InvalidParameter
  /\ op = NoOperator


\* C12: every create call and every one-shot run call, of a transpose
\* operator or of a derived operator, returns Uninitialized when the backend
\* is not initialized and UnsupportedHardware when the capability bit of its
\* element width is absent (nothing else being wrong with the call), and
\* then creates no operator and runs nothing.
C12_CapabilityChecked ==
  (call.kind \in {"create", "oneshot"}) =>
    /\ "XNNPACK" \notin init_flags =>
         call.status = Uninitialized /\ op = NoOperator /\ ~call.handed
    /\ ("XNNPACK" \in init_flags /\ DatatypeInitFlag(call.bits) \notin init_flags
          /\ \/ call.kind = "oneshot"
             \/ call.fn = "xnn_create_transpose_nd" /\ created.alloc
             \/ call.fn \in DerivedCreates /\ created.alloc /\ ValidDerivedConfig(created)) =>
         call.status = UnsupportedHardware /\ op = NoOperator /\ ~call.handed

\* C13: space-to-depth with block size b on a packed NHWC buffer whose height
\* and width are multiples of b, followed by depth-to-space NHWC with the
\* same b on the buffer it wrote, puts every byte back where it was: both
\* are rank-5 transpose problems, and the byte moves of the second are the
\* byte moves of the first reversed.
C13_BlockRoundTrip ==
  (call.kind = "setup" /\ call.fn = "xnn_setup_depth_to_space_nhwc") =>
    LET there == call.done
        back == ExecutePlan(op)
        bytes == call.args.batch_size * call.args.input_height * call.args.input_width
                   * created.block_size * created.block_size * created.channels
                   * SizeOf(created.bits)
    IN /\ call.status = Success
       /\ op.state = "ready"
       /\ call.t.num_dims = 5
       /\ there.x = 1 /\ there.y = 2 /\ back.x = 2 /\ back.y = 3
       /\ {p[1] : p \in there.pairs} = 0..(bytes - 1)
       /\ {p[2] : p \in there.pairs} = 0..(bytes - 1)
       /\ Cardinality(there.pairs) = bytes
       /\ back.pairs = {<<p[2], p[1]>> : p \in there.pairs}

\* the round trip of a 4x4 image with one channel and block size 2, whose
\* space-to-depth moves bytes
C13_Witness ==
  /\ call.kind = "setup" /\ call.fn = "xnn_setup_depth_to_space_nhwc"
  /\ op.state = "ready"
  /\ created.block_size = 2 /\ created.channels = 1
  /\ call.args.batch_size = 1 /\ call.args.input_height = 2 /\ call.args.input_width = 2
  /\ \E p \in call.done.pairs : p[1] # p[2]

\* C14: after a successful setup on packed buffers (no stride arguments)
\* without zero extents, executing the stored plan writes
\* output[i_perm[0], ..., i_perm[rank-1]] = input[i_0, ..., i_rank-1] for
\* every index, and the plan of a setup on the output with the inverse
\* permutation moves every byte back to where it was.
C14_RoundTrip ==
  (/\ ReachedTranspose /\ call.status = Success /\ op.state = "ready"
   /\ call.t.input_stride.null /\ call.t.output_stride.null) =>
    LET n == call.t.num_dims
        es == call.t.element_size
        out_shape == OutputShape(n, call.t.perm, call.t.shape)
        moved == ExecutePlan(op)
        inverse == [k \in 0..(n - 1) |-> CHOOSE j \in 0..(n - 1) : call.t.perm[j] = k]
        back == Delegate(created.op, call.output, 3,
                         TransposeArgs(n, out_shape, inverse, NullArr, NullArr, es))
    IN /\ moved.x = call.input /\ moved.y = call.output
       /\ moved.pairs =
            {<<Dot(n, idx, PackedStrides(n, call.t.shape)) * es + b,
               Dot(n, [k \in 0..(n - 1) |-> idx[call.t.perm[k]]], PackedStrides(n, out_shape)) * es + b>> :
               idx \in Indices(n, call.t.shape), b \in 0..(es - 1)}
       /\ {p[1] : p \in moved.pairs} = 0..(es * ProdFrom(call.t.shape, 0, n) - 1)
       /\ back.status = Success /\ back.op.state = "ready"
       /\ ExecutePlan(back.op).x = call.output
       /\ ExecutePlan(back.op).pairs = {<<p[2], p[1]>> : p \in moved.pairs}

\* shape [2,3,4] was set up with perm [2,0,1] and 4-byte elements on packed
\* buffers
C14_Witness ==
  /\ ReachedTranspose /\ call.status = Success /\ op.state = "ready"
  /\ call.t.input_stride.null /\ call.t.output_stride.null
  /\ call.t.shape = RoundTripShape
  /\ call.t.perm = (0 :> 2 @@ 1 :> 0 @@ 2 :> 1)
  /\ call.t.element_size = 4
  /\ op.compute.type = "xnn_parallelization_type_2d_tile_2d"

\* C15: whenever the normalized problem of a successful setup whose strides
\* pass the stride rules has rank 1, the stored plan is the linear copy
\* (xnn_compute_univector_contiguous with the xx.copy kernel, 1-D) over
\* element_size * product of shape bytes and not a transpose task; an
\* identity permutation over packed buffers normalizes to rank 1 whatever its
\* rank.
C15_RankOneCopies ==
  (ReachedTranspose /\ call.status = Success /\ op.state = "ready" /\ ~call.logged) =>
    /\ Normalized(call.t).dims = 1 =>
         /\ op.compute.task = "xnn_compute_univector_contiguous"
         /\ op.compute.type = "xnn_parallelization_type_1d_tile_1d"
         /\ op.context.univector_contiguous.ukernel = "xx.copy"
         /\ op.compute.range[0] = call.t.element_size * ProdFrom(call.t.shape, 0, call.t.num_dims)
    /\ (/\ call.t.perm = Identity(call.t.num_dims)
        /\ call.t.input_stride.null /\ call.t.output_stride.null) =>
         Normalized(call.t).dims = 1

\* a rank-6 identity permutation over packed buffers was set up as a copy
C15_Witness ==
  /\ ReachedTranspose /\ call.status = Success /\ op.state = "ready"
  /\ call.t.num_dims = XNN_MAX_TENSOR_DIMS
  /\ call.t.shape = Arr(XNN_MAX_TENSOR_DIMS, MaxExtent)
  /\ call.t.perm = Identity(XNN_MAX_TENSOR_DIMS)
  /\ call.t.input_stride.null /\ call.t.output_stride.null
  /\ ~call.logged
  /\ Normalized(call.t).dims = 1
  /\ op.compute.task = "xnn_compute_univector_contiguous"

\* create, setup and run of a transpose operator on a fresh handle, with
\* memory available: the status of the first call that fails, or of run, and
\* what the executor moved
ThreeCalls(bits, flags, input, output, num_dims, shape, perm) ==
  LET c == xnn_create_transpose_nd(bits, flags, TRUE) IN
  IF c.status # Success
  THEN [status |-> c.status, handed |-> FALSE, done |-> NothingExecuted]
  ELSE LET s == xnn_setup_transpose_nd(bits, c.op, input, output, num_dims, shape, perm) IN
       IF s.status # Success
       THEN [status |-> s.status, handed |-> FALSE, done |-> NothingExecuted]
       ELSE LET r == xnn_run_operator(s.op) IN
            [status |-> r.status, handed |-> r.handed,
             done |-> IF r.handed THEN ExecutePlan(s.op) ELSE NothingExecuted]

\* C16: a one-shot run returns, with the status of create + setup + run on a
\* fresh operator for the same flags and arguments (the status of the first
\* step that fails, nothing run), after the same output writes, and leaves
\* the caller without an operator.
C16_OneShotIsThreeCalls ==
  call.kind = "oneshot" =>
    /\ ~call.crashed
    /\ ~call.released
    /\ NoHandle
    /\ \A flags \in FlagValues :
         LET seq == ThreeCalls(call.bits, flags, call.input, call.output,
                               call.args.num_dims, call.args.shape, call.args.perm)
         IN /\ call.status = seq.status
            /\ call.handed = seq.handed
            /\ call.done = seq.done

\* a setup that stored a plan of normalized rank >= 2 for strides that pass
\* the stride rules
StoredLoops ==
  /\ ReachedTranspose /\ call.status = Success /\ op.state = "ready" /\ ~call.logged
  /\ Normalized(call.t).dims >= 2

C18_FailedSetupIsInvalid ==
  (IsSetup /\ call.status # Success) =>
    /\ op.alive
    /\ op.state = "invalid"

\* the (extent, input_stride, output_stride) triples of the normalized
\* problem, one for each output dimension k and the input dimension perm[k]
\* that sources it, and those at the positions of the stored plan
NormalizedTriple(p, k) == <<p.shape[p.perm[k]], p.is[p.perm[k]], p.os[k]>>

StoredTriple(o, i) ==
  <<o.compute.range[i], o.context.transpose.input_stride[i], o.context.transpose.output_stride[i]>>

\* C19: for every successful setup that stores a transpose plan (normalized
\* rank >= 2), every triple occurs at as many positions of the stored plan as
\* it occurs in the normalized problem, and the positions after the
\* normalized rank are left as they were.
C19_TriplesPreserved ==
  (ReachedTranspose /\ call.status = Success /\ op.state = "ready" /\ Normalized(call.t).dims >= 2) =>
    LET p == Normalized(call.t)
        dims == 0..(p.dims - 1)
    IN /\ \A k \in dims :
            Cardinality({i \in dims : StoredTriple(op, i) = NormalizedTriple(p, k)})
              = Cardinality({j \in dims : NormalizedTriple(p, j) = NormalizedTriple(p, k)})
       /\ \A i \in p.dims..(XNN_MAX_TENSOR_DIMS - 1) :
            StoredTriple(op, i) = StoredTriple(created.op, i)

\* a rank-4 plan whose positions 0 and 2 were exchanged
C19_Witness ==
  /\ ReachedTranspose /\ call.status = Success /\ op.state = "ready"
  /\ Normalized(call.t).dims = 4
  /\ SwapIndex(4, Normalized(call.t).perm) = 0
  /\ StoredTriple(op, 2) = NormalizedTriple(Normalized(call.t), 0)
  /\ StoredTriple(op, 0) = NormalizedTriple(Normalized(call.t), 2)
  /\ StoredTriple(op, 0) # StoredTriple(op, 2)

\* C20: in the plan of an operator in state ready, distinct points of the
\* iteration space write distinct output bytes: the plan writes as many
\* different output bytes as its iteration space has points times the bytes
\* of the element it moves.
C20_DisjointWrites ==
  (op.alive /\ op.state = "ready") =>
    Cardinality({p[2] : p \in ExecutePlan(op).pairs}) = PlanBytes(op)

\* the six cases of switch (normalized_dims)
EnumeratedTypes == {ParallelizationType(r) : r \in 1..XNN_MAX_TENSOR_DIMS}

\* C21: for every setup that passes validation with no zero extent, the
\* normalized rank r satisfies 1 <= r <= rank <= 6, and the rank switch has
\* stored the parallelization type and the task of case r, never what its
\* default branch leaves.
C21_DispatchReachable ==
  (IsSetup /\ call.reached /\ call.status = Success /\ op.state = "ready") =>
    LET r == Normalized(call.t).dims IN
      /\ 1 <= r
      /\ r <= call.t.num_dims
      /\ call.t.num_dims <= XNN_MAX_TENSOR_DIMS
      /\ op.compute.type \in EnumeratedTypes
      /\ "XNN_UNREACHABLE" \notin EnumeratedTypes
      /\ op.compute.task # "XNN_UNREACHABLE"
      /\ PlanDims(op.compute.type) = r

\* a rank-6 reversal whose normalized rank is 6 was stored as a 6-D plan
C21_Witness ==
  /\ IsSetup /\ call.reached /\ call.status = Success /\ op.state = "ready"
  /\ call.t.num_dims = XNN_MAX_TENSOR_DIMS
  /\ call.t.perm = Reverse(XNN_MAX_TENSOR_DIMS)
  /\ Normalized(call.t).dims = XNN_MAX_TENSOR_DIMS
  /\ op.compute.type = "xnn_parallelization_type_6d_tile_2d"

\* the strategy, the fixed-width task and the variable-width task of each
\* normalized rank, and the kernel family of each fixed element size
StrategyOfRank ==
  (2 :> "xnn_parallelization_type_2d_tile_2d" @@ 3 :> "xnn_parallelization_type_3d_tile_2d"
   @@ 4 :> "xnn_parallelization_type_4d_tile_2d" @@ 5 :> "xnn_parallelization_type_5d_tile_2d"
   @@ 6 :> "xnn_parallelization_type_6d_tile_2d")

FixedTaskOfRank ==
  (2 :> "xnn_compute_transposec_2d" @@ 3 :> "xnn_compute_transposec_3d"
   @@ 4 :> "xnn_compute_transposec_4d" @@ 5 :> "xnn_compute_transposec_5d"
   @@ 6 :> "xnn_compute_transposec_6d")

VariableTaskOfRank ==
  (2 :> "xnn_compute_transposev_2d" @@ 3 :> "xnn_compute_transposev_3d"
   @@ 4 :> "xnn_compute_transposev_4d" @@ 5 :> "xnn_compute_transposev_5d"
   @@ 6 :> "xnn_compute_transposev_6d")

FamilyOfSize == (1 :> "x8" @@ 2 :> "x16" @@ 4 :> "x32")

Log2OfSize == (1 :> 0 @@ 2 :> 1 @@ 4 :> 2)

\* C22: for a normalized rank r in 2..6 the stored strategy is the r-D one
\* tiled in 2-D; when the normalized element size is 1, 2 or 4 the task is
\* the fixed-width transpose of rank r with the kernel, the tile size and the
\* log2 size of that width, and for any other normalized element size it is
\* the variable-width transpose of rank r with the xx kernel and tile size
\* and the element size stored in the context.
C22_KernelSelection ==
  (ReachedTranspose /\ call.status = Success /\ op.state = "ready"
   /\ Normalized(call.t).dims \in 2..XNN_MAX_TENSOR_DIMS) =>
    LET r == Normalized(call.t).dims
        es == Normalized(call.t).es
    IN /\ op.compute.type = StrategyOfRank[r]
       /\ IF es \in {1, 2, 4}
          THEN /\ op.compute.task = FixedTaskOfRank[r]
               /\ op.compute.tile = Arr(2, FamilyOfSize[es] \o ".transpose.tile_size")
               /\ op.context.transpose.const_size_ukernel = FamilyOfSize[es] \o ".transpose.const_size_ukernel"
               /\ op.context.transpose.log2_element_size = Log2OfSize[es]
          ELSE /\ op.compute.task = VariableTaskOfRank[r]
               /\ op.compute.tile = Arr(2, "xx.transpose.tile_size")
               /\ op.context.transpose.variable_size_ukernel = "xx.transpose.variable_size_ukernel"
               /\ op.context.transpose.element_size = es

\* a rank-4 problem of 4-byte elements whose last dimension stays in place
\* was stored as a 3-D variable-width transpose of 8-byte elements
C22_Witness ==
  /\ ReachedTranspose /\ call.status = Success /\ op.state = "ready"
  /\ call.t.num_dims = 4 /\ call.t.element_size = 4
  /\ Normalized(call.t).dims = 3
  /\ Normalized(call.t).es = 8
  /\ op.compute.task = "xnn_compute_transposev_3d"
  /\ op.context.transpose.element_size = 8

\* C23: a depth-to-space or space-to-depth operator keeps, through every
\* sequence of setup calls, the channels, block_size, input_pixel_stride and
\* output_pixel_stride that create stored, and each of its setups builds the
\* transpose problem it would build on the operator as created.
C23_SetupKeepsConfiguration ==
  (op.alive /\ created.fn \in DerivedCreates) =>
    /\ op.channels = created.op.channels
    /\ op.block_size = created.op.block_size
    /\ op.input_pixel_stride = created.op.input_pixel_stride
    /\ op.output_pixel_stride = created.op.output_pixel_stride
    /\ (MatchingSetup /\ call.reached) => call.t = ApplySetup(created.op, call).t

\* the member of context the selected task reads its buffers from
SelectedContext(o) ==
  IF o.compute.task = "xnn_compute_univector_contiguous" THEN "univector_contiguous"
  ELSE "transpose"

====
